---- MODULE Spec2Model ----
(***************************************************************************)
(* Projects CRUD facade (src/main.py): request handlers over one document  *)
(* collection, the identifier codec and the document serializer.           *)
(*                                                                         *)
(* Python values are tagged records: None, str, datetime and ObjectId.     *)
(* Documents, request bodies and API records are functions from field      *)
(* names to values, so a missing key and a key holding None differ.        *)
(***************************************************************************)
EXTENDS Integers, Sequences, FiniteSets, TLC

VARIABLES
    store,       \* documents of collection COLL
    nextOid,     \* next ObjectId the store generates
    clock,       \* last value read from the wall clock
    everIds,     \* history: every ObjectId ever held by a stored document
    deleted,     \* history: every ObjectId a delete has removed
    inflight,    \* create_project between its insert and its read-back
    req,         \* the last request
    resp,        \* its response
    storeCalls,  \* store operations that request issued
    serIn,       \* argument of a serialize_doc call
    serOut       \* its return value

vars == <<store, nextOid, clock, everIds, deleted, inflight, req, resp,
          storeCalls, serIn, serOut>>

\* ---------------------------------------------------------------- bounds
MaxIds == 2
MaxClock == 2

\* ------------------------------------------------------ program constants
MinNameLen == 1
MaxNameLen == 120
MaxDescLen == 2000
DefaultLimit == 100
COLL == "project"

\* ---------------------------------------------------------------- values
None == [none |-> TRUE]
Unset == [unset |-> TRUE]
Pending == [pending |-> TRUE]
Str(x) == [s |-> x]
datetime(n) == [dt |-> n]
Oid(n) == [oid |-> n]

IsStr(v) == DOMAIN v = {"s"}
IsOid(v) == DOMAIN v = {"oid"}

\* length of the strings the requests use
StrLen(v) ==
    CASE v = Str("") -> 0
      [] v = Str("N121") -> MaxNameLen + 1
      [] OTHER -> 1

UserFields == {"name", "description", "status", "owner_email", "due_date"}

\* keys of f with value Unset removed
Present(f) == [k \in {j \in DOMAIN f : f[j] # Unset} |-> f[k]]

\* ------------------------------------------------------ identifier codec
OidRange == 1..(MaxIds + 1)

\* str(ObjectId)
hex(o) == Str("hex" \o ToString(o.oid))

\* str(v)
str(v) ==
    IF IsOid(v) THEN hex(v)
    ELSE IF IsStr(v) THEN v
    ELSE IF DOMAIN v = {"dt"} THEN Str("D" \o ToString(v.dt))
    ELSE Str("None")

is_valid_any(s) == IsStr(s)

is_valid(s) == \E n \in OidRange : s = hex(Oid(n))

\* ObjectId(s); a string is_valid rejects names no ObjectId of the store
ObjectId(s) ==
    IF \E n \in OidRange : s = hex(Oid(n))
    THEN Oid(CHOOSE n \in OidRange : s = hex(Oid(n)))
    ELSE Oid(0)

PathIds == {hex(Oid(n)) : n \in OidRange} \cup {Str("not-an-id")}

\* ---------------------------------------------------------- serialization
hasattr_isoformat(v) == DOMAIN v = {"dt"}

isoformat(v) == Str("T" \o ToString(v.dt))

Falsy(doc) == doc = None \/ DOMAIN doc = {}

serialize_doc_keep_id(doc) ==
    IF Falsy(doc) THEN doc
    ELSE [k \in DOMAIN doc |->
            IF hasattr_isoformat(doc[k]) THEN isoformat(doc[k]) ELSE doc[k]]

serialize_doc(doc) ==
    IF Falsy(doc) THEN doc
    ELSE LET hasId == "_id" \in DOMAIN doc /\ doc["_id"] # None
             keys == (DOMAIN doc \ {"_id"}) \cup (IF hasId THEN {"id"} ELSE {})
             d == [k \in keys |->
                     IF k = "id" /\ hasId THEN str(doc["_id"]) ELSE doc[k]]
         IN  [k \in keys |->
                 IF hasattr_isoformat(d[k]) THEN isoformat(d[k]) ELSE d[k]]

\* ----------------------------------------------------------------- models
OptStr(p, f, maxLen) ==
    f \in DOMAIN p => \/ p[f] = None
                      \/ IsStr(p[f]) /\ StrLen(p[f]) <= maxLen

Unbounded == MaxDescLen + MaxNameLen

\* ProjectCreate(**p) validates
ProjectCreateValid(p) ==
    /\ "name" \in DOMAIN p
    /\ IsStr(p["name"])
    /\ StrLen(p["name"]) >= MinNameLen
    /\ StrLen(p["name"]) <= MaxNameLen
    /\ OptStr(p, "description", MaxDescLen)
    /\ "status" \in DOMAIN p => IsStr(p["status"])
    /\ OptStr(p, "owner_email", Unbounded)
    /\ OptStr(p, "due_date", Unbounded)

Default(f) == IF f = "status" THEN Str("active") ELSE None

\* ProjectCreate.model_dump()
model_dump(p) == [f \in UserFields |-> IF f \in DOMAIN p THEN p[f] ELSE Default(f)]

\* ProjectUpdate(**p) validates
ProjectUpdateValid(p) ==
    /\ "name" \in DOMAIN p =>
          \/ p["name"] = None
          \/ /\ IsStr(p["name"])
             /\ StrLen(p["name"]) >= MinNameLen
             /\ StrLen(p["name"]) <= MaxNameLen
    /\ OptStr(p, "description", MaxDescLen)
    /\ OptStr(p, "status", Unbounded)
    /\ OptStr(p, "owner_email", Unbounded)
    /\ OptStr(p, "due_date", Unbounded)

OutFields == UserFields \cup {"id", "created_at", "updated_at"}

\* ProjectOut(**d) validates; d = None makes the call itself raise
ProjectOutValid(d) ==
    /\ d # None
    /\ "id" \in DOMAIN d
    /\ IsStr(d["id"])
    /\ ProjectCreateValid([k \in DOMAIN d \cap UserFields |-> d[k]])
    /\ OptStr(d, "created_at", Unbounded)
    /\ OptStr(d, "updated_at", Unbounded)

ProjectOutDropDescription(d) ==
    [f \in OutFields |->
        IF f \in DOMAIN d /\ f # "description" THEN d[f] ELSE Default(f)]

\* ProjectOut(**d): extra keys are ignored, missing ones take their default
ProjectOut(d) ==
    [f \in OutFields |-> IF f \in DOMAIN d THEN d[f] ELSE Default(f)]

\* ------------------------------------------------------------------ store
Min(a, b) == IF a <= b THEN a ELSE b

Matching(S, oid) == {d \in S : d["_id"] = oid}

Ids(S) == {d["_id"] : d \in S}

\* update operator {"$set": changes} applied to document d
DollarSet(d, changes) ==
    [k \in DOMAIN d \cup DOMAIN changes |->
        IF k \in DOMAIN changes THEN changes[k] ELSE d[k]]

\* database.create_document: dump the model, stamp created_at, insert_one
create_document(S, payload, now, oid) ==
    S \cup {[k \in UserFields \cup {"_id", "created_at"} |->
                IF k = "_id" THEN oid
                ELSE IF k = "created_at" THEN datetime(now)
                ELSE model_dump(payload)[k]]}

\* database.get_documents: up to limit documents, in no promised order
get_documents(S, limit) ==
    {docs \in SUBSET S : Cardinality(docs) = Min(limit, Cardinality(S))}

\* db[COLL].find_one({"_id": oid})
find_one(S, oid) ==
    IF Matching(S, oid) = {} THEN None ELSE CHOOSE d \in Matching(S, oid) : TRUE

find_one_and_upsert(S, oid, changes) ==
    IF Matching(S, oid) = {}
    THEN {[store |-> S \cup {DollarSet([k \in {"_id"} |-> oid], changes)},
           res |-> DollarSet([k \in {"_id"} |-> oid], changes)]}
    ELSE {[store |-> (S \ {d}) \cup {DollarSet(d, changes)},
           res |-> DollarSet(d, changes)] : d \in Matching(S, oid)}

\* db[COLL].find_one_and_update({"_id": oid}, {"$set": changes},
\* return_document=True): the possible outcomes
find_one_and_update(S, oid, changes) ==
    IF Matching(S, oid) = {}
    THEN {[store |-> S, res |-> None]}
    ELSE {[store |-> (S \ {d}) \cup {DollarSet(d, changes)},
           res |-> DollarSet(d, changes)] : d \in Matching(S, oid)}

\* db[COLL].delete_one({"_id": oid}): the possible outcomes
delete_one(S, oid) ==
    IF Matching(S, oid) = {}
    THEN {[store |-> S, deleted_count |-> 0]}
    ELSE {[store |-> S \ {d}, deleted_count |-> 1] : d \in Matching(S, oid)}

\* ----------------------------------------------------------------- inputs
Body(name, description, status, owner_email, due_date) ==
    Present([name |-> name, description |-> description, status |-> status,
             owner_email |-> owner_email, due_date |-> due_date])

CreateBodies ==
    {Body(Str("A"), Unset, Unset, Unset, Unset),
     Body(Str("A"), Str("d"), Str("paused"), Str("e"), Str("2026-01-01")),
     Body(Str(""), Unset, Unset, Unset, Unset),
     Body(Unset, Str("d"), Unset, Unset, Unset)}

UpdateBodies ==
    {Body(Unset, Unset, Unset, Unset, Unset),
     Body(Str("B"), Unset, Str("completed"), Unset, Str("2026-02-02")),
     Body(None, Unset, Unset, Unset, Unset),
     Body(Str("N121"), Unset, Unset, Unset, Unset)}

Limits == {1, DefaultLimit}

NoBody == [k \in {} |-> None]

Request(op, id, payload, limit) ==
    [op |-> op, id |-> id, payload |-> payload, limit |-> limit]

Detail(msg) == [detail |-> msg]

Respond(r, status, body, calls) ==
    /\ req' = r
    /\ resp' = [status |-> status, body |-> body]
    /\ storeCalls' = calls

\* datetime.now(timezone.utc): each reading is later than the one before,
\* until the clock reaches MaxClock, where it stays
Now == Min(clock + 1, MaxClock)

\* return ProjectOut(**serialize_doc(doc))
Reply(r, doc, calls) ==
    IF ProjectOutValid(serialize_doc(doc))
    THEN Respond(r, 200, ProjectOut(serialize_doc(doc)), calls)
    ELSE Respond(r, 500, Detail("Internal Server Error"), calls)

\* --------------------------------------------------------------- handlers
TypeInit ==
    /\ store = {}
    /\ nextOid = 1
    /\ clock = 0
    /\ everIds = {}
    /\ deleted = {}
    /\ inflight = None
    /\ req = Request("none", None, NoBody, 0)
    /\ resp = [status |-> 0, body |-> None]
    /\ storeCalls = 0

Init == TypeInit /\ serIn = None /\ serOut = Pending

list_projects(limit) ==
    /\ \E docs \in get_documents(store, limit) :
          LET r == Request("list", None, NoBody, limit)
              out == {serialize_doc(d) : d \in docs}
          IN  IF \A o \in out : ProjectOutValid(o)
              THEN Respond(r, 200, {ProjectOut(o) : o \in out}, 1)
              ELSE Respond(r, 500, Detail("Internal Server Error"), 1)
    /\ UNCHANGED <<store, nextOid, clock, everIds, deleted, inflight, serIn, serOut>>

\* the request body fails ProjectCreate: the handler is never entered
create_rejected(payload) ==
    /\ ~ProjectCreateValid(payload)
    /\ Respond(Request("create", None, payload, 0), 422, Detail("validation error"), 0)
    /\ UNCHANGED <<store, nextOid, clock, everIds, deleted, inflight, serIn, serOut>>

\* new_id = create_document(COLL, payload)
create_insert(payload) ==
    /\ ProjectCreateValid(payload)
    /\ inflight = None
    /\ nextOid <= MaxIds
    /\ store' = create_document(store, payload, Now, Oid(nextOid))
    /\ clock' = Now
    /\ nextOid' = nextOid + 1
    /\ everIds' = everIds \cup Ids(store')
    /\ inflight' = [new_id |-> hex(Oid(nextOid)), payload |-> payload]
    /\ UNCHANGED <<deleted, req, resp, storeCalls, serIn, serOut>>

\* doc = db[COLL].find_one({"_id": ObjectId(new_id)}); return ProjectOut(...)
create_read_back ==
    /\ inflight # None
    /\ Reply(Request("create", None, inflight.payload, 0),
             find_one(store, ObjectId(inflight.new_id)), 2)
    /\ inflight' = None
    /\ UNCHANGED <<store, nextOid, clock, everIds, deleted, serIn, serOut>>

\* the whole handler, run without interference
create_project(payload) ==
    IF ~ProjectCreateValid(payload)
    THEN create_rejected(payload)
    ELSE /\ nextOid <= MaxIds
         /\ inflight = None
         /\ LET new_id == hex(Oid(nextOid))
                S == create_document(store, payload, Now, Oid(nextOid))
            IN  /\ store' = S
                /\ clock' = Now
                /\ nextOid' = nextOid + 1
                /\ everIds' = everIds \cup Ids(S)
                /\ Reply(Request("create", None, payload, 0),
                         find_one(S, ObjectId(new_id)), 2)
         /\ UNCHANGED <<deleted, inflight, serIn, serOut>>

ChangesAll(payload) ==
    [f \in UserFields |-> IF f \in DOMAIN payload THEN payload[f] ELSE None]

\* payload.model_dump(exclude_unset=True)
Changes(payload) == payload

NoChangesNever(changes) == FALSE

\* not changes
NoChanges(changes) == DOMAIN changes = {}

update_project(project_id, payload) ==
    LET r == Request("update", project_id, payload, 0) IN
    IF ~ProjectUpdateValid(payload)
    THEN /\ Respond(r, 422, Detail("validation error"), 0)
         /\ UNCHANGED <<store, nextOid, clock, everIds, deleted, inflight, serIn, serOut>>
    ELSE IF ~is_valid(project_id)
    THEN /\ Respond(r, 400, Detail("Invalid project id"), 0)
         /\ UNCHANGED <<store, nextOid, clock, everIds, deleted, inflight, serIn, serOut>>
    ELSE IF NoChanges(Changes(payload))
    THEN /\ Respond(r, 400, Detail("No changes provided"), 0)
         /\ UNCHANGED <<store, nextOid, clock, everIds, deleted, inflight, serIn, serOut>>
    ELSE /\ clock' = Now
         /\ LET changes == DollarSet(Changes(payload),
                                     [k \in {"updated_at"} |-> datetime(Now)])
            IN  \E o \in find_one_and_update(store, ObjectId(project_id), changes) :
                    /\ store' = o.store
                    /\ everIds' = everIds \cup Ids(o.store)
                    /\ IF o.res = None
                       THEN Respond(r, 404, Detail("Project not found"), 1)
                       ELSE Reply(r, o.res, 1)
         /\ UNCHANGED <<nextOid, deleted, inflight, serIn, serOut>>

NeverMissing(count) == FALSE

\* res.deleted_count == 0
Missing(count) == count = 0

delete_project(project_id) ==
    LET r == Request("delete", project_id, NoBody, 0) IN
    IF ~is_valid(project_id)
    THEN /\ Respond(r, 400, Detail("Invalid project id"), 0)
         /\ UNCHANGED <<store, nextOid, clock, everIds, deleted, inflight, serIn, serOut>>
    ELSE /\ \E o \in delete_one(store, ObjectId(project_id)) :
              /\ store' = o.store
              /\ deleted' = deleted \cup (Ids(store) \ Ids(o.store))
              /\ IF Missing(o.deleted_count)
                 THEN Respond(r, 404, Detail("Project not found"), 1)
                 ELSE Respond(r, 200, [ok |-> TRUE], 1)
         /\ UNCHANGED <<nextOid, clock, everIds, inflight, serIn, serOut>>

ListProjects == \E limit \in Limits : list_projects(limit)
CreateProject == \E payload \in CreateBodies : create_project(payload)
UpdateProject == \E id \in PathIds, payload \in UpdateBodies : update_project(id, payload)
DeleteProject == \E id \in PathIds : delete_project(id)

\* requests served one after the other
Next == ListProjects \/ CreateProject \/ UpdateProject \/ DeleteProject

Spec == Init /\ [][Next]_vars

\* requests of other clients served between the two store operations of a create
CreateRejected == \E payload \in CreateBodies : create_rejected(payload)
CreateInsert == \E payload \in CreateBodies : create_insert(payload)
CreateReadBack == create_read_back

NextConc ==
    \/ ListProjects
    \/ CreateRejected
    \/ CreateInsert
    \/ CreateReadBack
    \/ UpdateProject
    \/ DeleteProject

SpecConc == Init /\ [][NextConc]_vars

\* ------------------------------------------------- serialize_doc on its own
SerDocs ==
    {Present(r) : r \in [_id : {Unset, None, Oid(1)},
                         id : {Unset, Str("x")},
                         name : {Unset, None, Str("A")},
                         created_at : {Unset, datetime(1), Str("T1")},
                         updated_at : {Unset, datetime(2)}]}

SerInit == TypeInit /\ serIn \in SerDocs \cup {None} /\ serOut = Pending

arg_aliased(doc) == serialize_doc(doc)

\* d = {**doc}: the pop and the assignments act on the copy, doc stays as it was
arg_after_call(doc) == doc

Serialize ==
    /\ serOut = Pending
    /\ serOut' = serialize_doc(serIn)
    /\ serIn' = arg_after_call(serIn)
    /\ UNCHANGED <<store, nextOid, clock, everIds, deleted, inflight, req, resp, storeCalls>>

SerNext == Serialize

SerSpec == SerInit /\ [][SerNext]_vars

\* ================================================================= claims
\* a path id in the store's identifier format
WellFormedId(s) == s \in {Str("hex" \o ToString(n)) : n \in OidRange}

\* the stored documents holding the ObjectId that string s names
Named(S, s) == {d \in S : d["_id"] = Oid(CHOOSE n \in OidRange : s = Str("hex" \o ToString(n)))}

\* documents standing for the ids in I, for Named
deleted_docs(I) == {[k \in {"_id"} |-> i] : i \in I}

\* str(v) as the claims read it
StringForm(v) ==
    IF DOMAIN v = {"oid"} THEN Str("hex" \o ToString(v.oid)) ELSE Str("None")

\* every field of doc but _id (and id, when _id sets it) is in out: a
\* date/time value as its ISO string, any other value as it was; out has no
\* further field
SerializedRest(doc, out) ==
    LET idSet == "_id" \in DOMAIN doc /\ doc["_id"] # None
        rest == DOMAIN doc \ ({"_id"} \cup (IF idSet THEN {"id"} ELSE {}))
    IN  /\ DOMAIN out \ {"id"} = rest \ {"id"}
        /\ \A k \in rest :
              /\ k \in DOMAIN out
              /\ out[k] = IF DOMAIN doc[k] = {"dt"}
                          THEN Str("T" \o ToString(doc[k].dt))
                          ELSE doc[k]

\* record q carries every field the body submitted
MatchesBody(q, body) == \A f \in DOMAIN body : q[f] = body[f]

\* C1: a successful update changes exactly the submitted fields F of the
\* target to the submitted values, leaves its id and every field outside F
\* but updated_at as they were, leaves every other project untouched, and
\* sets updated_at to a timestamp at or after created_at.
C1_UpdateFrame ==
    [][(req'.op = "update" /\ resp'.status = 200) =>
        LET F == DOMAIN req'.payload IN
        /\ F # {}
        /\ F \subseteq UserFields
        /\ WellFormedId(req'.id)
        /\ Cardinality(Named(store, req'.id)) = 1
        /\ Cardinality(Named(store', req'.id)) = 1
        /\ LET old == CHOOSE d \in Named(store, req'.id) : TRUE
               new == CHOOSE d \in Named(store', req'.id) : TRUE
           IN  /\ \A f \in F : new[f] = req'.payload[f]
               /\ DOMAIN new = DOMAIN old \cup {"updated_at"}
               /\ \A k \in DOMAIN old \ (F \cup {"updated_at"}) : new[k] = old[k]
               /\ new["_id"] = old["_id"]
               /\ store' \ {new} = store \ {old}
               /\ new["updated_at"].dt >= new["created_at"].dt
               /\ new["updated_at"].dt >= clock
               /\ \A f \in F : resp'.body[f] = req'.payload[f]]_vars

\* an update of one project answered 200 while another project is stored
\* that holds values the update did not submit
C1_Witness ==
    /\ req.op = "update"
    /\ resp.status = 200
    /\ Cardinality(DOMAIN req.payload) = 3
    /\ Cardinality(store) = 2
    /\ \E d \in Named(store, req.id) :
          /\ d["description"] = Str("d")
          /\ d["updated_at"].dt >= d["created_at"].dt

\* C2 as stated: a list right after a create holds exactly one project
\* that matches the submitted fields.
C2_ExactlyOneMatching ==
    [][(/\ req.op = "create"
        /\ resp.status = 200
        /\ req'.op = "list"
        /\ resp'.status = 200
        /\ req'.limit >= Cardinality(store)) =>
        Cardinality({q \in resp'.body : MatchesBody(q, req.payload)}) = 1]_vars

\* C2, amended: a create assigns an id no document ever held, after it the
\* collection holds exactly one document with that id and it carries the
\* submitted fields; a list right after it that answers 200 and is not cut
\* by its limit holds exactly one project with that id, carrying the
\* submitted fields (other listed projects may carry them too).
C2_CreateThenList ==
    [][/\ (req'.op = "create" /\ resp'.status = 200) =>
            /\ WellFormedId(resp'.body["id"])
            /\ Named(store, resp'.body["id"]) = {}
            /\ \A i \in everIds : Str("hex" \o ToString(i.oid)) # resp'.body["id"]
            /\ Cardinality(Named(store', resp'.body["id"])) = 1
            /\ \A d \in Named(store', resp'.body["id"]) : MatchesBody(d, req'.payload)
            /\ MatchesBody(resp'.body, req'.payload)
       /\ (/\ req.op = "create"
           /\ resp.status = 200
           /\ req'.op = "list"
           /\ resp'.status = 200
           /\ req'.limit >= Cardinality(store)) =>
            /\ Cardinality({q \in resp'.body : q["id"] = resp.body["id"]}) = 1
            /\ \A q \in resp'.body :
                  q["id"] = resp.body["id"] => MatchesBody(q, req.payload)]_vars

\* a list answered in full after two creates of equal name
C2_Witness ==
    /\ req.op = "list"
    /\ resp.status = 200
    /\ req.limit >= Cardinality(store)
    /\ Cardinality(resp.body) = 2
    /\ \A q \in resp.body : q["name"] = Str("A")

\* C3 as stated: an update or delete with a malformed path id is answered
\* 400 without any store operation, whatever the body holds.
C3_Always400 ==
    [][(req'.op \in {"update", "delete"} /\ ~WellFormedId(req'.id)) =>
        /\ resp'.status = 400
        /\ storeCalls' = 0
        /\ store' = store]_vars

\* C3, amended: an update or delete with a malformed path id never reaches
\* the store and leaves the collection as it was; it is answered 400, except
\* an update whose body fails the ProjectUpdate schema, which is answered 422
\* before the handler runs.
C3_InvalidIdRejected ==
    [][(req'.op \in {"update", "delete"} /\ ~WellFormedId(req'.id)) =>
        /\ resp'.status =
              IF req'.op = "update" /\ ~ProjectUpdateValid(req'.payload)
              THEN 422 ELSE 400
        /\ storeCalls' = 0
        /\ store' = store]_vars

\* an update with a malformed id and a body that would change a stored
\* project, answered 400
C3_Witness ==
    /\ req.op = "update"
    /\ ~WellFormedId(req.id)
    /\ DOMAIN req.payload # {}
    /\ resp.status = 400
    /\ store # {}

\* C4: an update with no field set is answered 400 and the collection,
\* the target's updated_at included, is the same before and after.
C4_EmptyUpdate ==
    [][(req'.op = "update" /\ DOMAIN req'.payload = {}) =>
        /\ resp'.status = 400
        /\ storeCalls' = 0
        /\ store' = store]_vars

\* an empty update of a stored project, answered 400
C4_Witness ==
    /\ req.op = "update"
    /\ DOMAIN req.payload = {}
    /\ WellFormedId(req.id)
    /\ Named(store, req.id) # {}
    /\ resp.status = 400

\* C5 as stated: an update with a non-empty body, or a delete, of a
\* well-formed id that names no stored project is answered 404 and changes
\* nothing.
C5_Always404 ==
    [][(/\ \/ req'.op = "update" /\ DOMAIN req'.payload # {}
           \/ req'.op = "delete"
        /\ WellFormedId(req'.id)
        /\ Named(store, req'.id) = {}) =>
        /\ resp'.status = 404
        /\ store' = store]_vars

\* C5, amended: an update with a non-empty body that passes the
\* ProjectUpdate schema, or a delete, of a well-formed id that names no
\* stored project is answered 404 and changes nothing (no upsert); a body
\* that fails the schema is answered 422, the collection unchanged as well.
C5_MissingId ==
    [][(/\ \/ req'.op = "update" /\ DOMAIN req'.payload # {}
           \/ req'.op = "delete"
        /\ WellFormedId(req'.id)
        /\ Named(store, req'.id) = {}) =>
        /\ resp'.status =
              IF req'.op = "update" /\ ~ProjectUpdateValid(req'.payload)
              THEN 422 ELSE 404
        /\ store' = store]_vars

\* an update that would change fields, of an id no stored project holds,
\* answered 404 while other projects are stored
C5_Witness ==
    /\ req.op = "update"
    /\ DOMAIN req.payload # {}
    /\ WellFormedId(req.id)
    /\ Named(store, req.id) = {}
    /\ resp.status = 404
    /\ store # {}

\* C6: after a delete of X answers 200, X is gone from the collection, and
\* every later delete of X answers 404 and leaves the collection as the
\* first delete left it.
C6_DeleteIdempotent ==
    [][req'.op = "delete" =>
        /\ resp'.status \in {200, 400, 404}
        /\ resp'.status = 200 =>
              /\ Named(store, req'.id) # {}
              /\ Named(store', req'.id) = {}
              /\ store' = store \ Named(store, req'.id)
        /\ (WellFormedId(req'.id) /\ Named(deleted_docs(deleted), req'.id) # {}) =>
              /\ resp'.status = 404
              /\ store' = store]_vars

\* a second delete of an id, answered 404, while another project is stored
C6_Witness ==
    /\ req.op = "delete"
    /\ resp.status = 404
    /\ WellFormedId(req.id)
    /\ Named(deleted_docs(deleted), req.id) # {}
    /\ store # {}

\* C7: no two stored projects share an id, an update never changes which
\* ids are stored, and a create assigns an id that no document ever held,
\* deleted ones included.
C7_UniqueIds ==
    [][/\ \A d1, d2 \in store' : d1["_id"] = d2["_id"] => d1 = d2
       /\ req'.op = "update" => {d["_id"] : d \in store'} = {d["_id"] : d \in store}
       /\ \A d \in store' :
             d["_id"] \notin {e["_id"] : e \in store} =>
                 /\ req'.op = "create"
                 /\ d["_id"] \notin everIds
                 /\ d["_id"] \notin deleted]_vars

\* a create answered 200 after an earlier project was updated and deleted
C7_Witness ==
    /\ req.op = "create"
    /\ resp.status = 200
    /\ deleted # {}
    /\ store # {}
    /\ clock = MaxClock

\* C8 as stated: for a non-empty document serialize_doc returns a mapping
\* without _id and with id holding the string form of _id, date/time values
\* as ISO strings and every other field as it was; an empty or absent
\* document is returned as it is; the argument is not modified.
C8_AlwaysId ==
    [][(serOut = Pending /\ serOut' # Pending) =>
        /\ serIn' = serIn
        /\ IF serIn = None \/ DOMAIN serIn = {}
           THEN serOut' = serIn
           ELSE /\ "_id" \notin DOMAIN serOut'
                /\ "_id" \in DOMAIN serIn =>
                      /\ "id" \in DOMAIN serOut'
                      /\ serOut'["id"] = StringForm(serIn["_id"])
                /\ SerializedRest(serIn, serOut')]_vars

\* C8, amended: as stated, but id is set from _id only when _id is not
\* null; a null _id is removed and no id is added (an id field the document
\* already has then passes through).
C8_Serialize ==
    [][(serOut = Pending /\ serOut' # Pending) =>
        /\ serIn' = serIn
        /\ IF serIn = None \/ DOMAIN serIn = {}
           THEN serOut' = serIn
           ELSE /\ "_id" \notin DOMAIN serOut'
                /\ ("_id" \in DOMAIN serIn /\ serIn["_id"] # None) =>
                      /\ "id" \in DOMAIN serOut'
                      /\ serOut'["id"] = StringForm(serIn["_id"])
                /\ ("_id" \in DOMAIN serIn /\ serIn["_id"] = None) =>
                      /\ "id" \in DOMAIN serOut' <=> "id" \in DOMAIN serIn
                      /\ "id" \in DOMAIN serIn => serOut'["id"] = serIn["id"]
                /\ SerializedRest(serIn, serOut')]_vars

\* a document with an ObjectId, a datetime and a plain field, serialized
C8_Witness ==
    /\ serOut # Pending
    /\ serIn # None
    /\ {"_id", "name", "created_at", "updated_at"} \subseteq DOMAIN serIn
    /\ serIn["_id"] = Oid(1)
    /\ serIn["created_at"] = datetime(1)
    /\ serIn["name"] = Str("A")
    /\ serOut["id"] = Str("hex1")
    /\ serOut["created_at"] = Str("T1")

\* C9: every stored project satisfies the ProjectOut schema, so list can
\* always serialize the collection.
C9_StoredProjectsValid ==
    \A d \in store : ProjectOutValid(serialize_doc(d))

\* C10: a create with a valid body is answered 200, whatever other clients
\* do between its insert and its read-back (documents already unserializable
\* through C9 aside).
C10_CreateAnswers200 ==
    (/\ req.op = "create"
     /\ ProjectCreateValid(req.payload)
     /\ \A d \in store : ProjectOutValid(serialize_doc(d)))
    => resp.status = 200

====
